---------------------------- MODULE Spec2Model ----------------------------
(***************************************************************************)
(* A model of torchext's dataset pipeline (src/torchext/data.py).          *)
(*                                                                         *)
(* The parallel ordered map stage (MappedDataset) is modelled as the       *)
(* processes the code starts: the job assigner (assign_jobs), the workers  *)
(* (Worker.run) and the consumer, which is the generator                   *)
(* MappedDataset.__iter__ running in the caller.  They share two bounded   *)
(* FIFO queues (mp.Queue).  The sequential stages BatchedDataset and       *)
(* BucketDataset are modelled as the generators they are, one action per   *)
(* iteration of their loop, and so are ShuffledDataset and, over the map   *)
(* stage, RepeatedDataset.                                                 *)
(*                                                                         *)
(* Python's indices are kept 0-based; a TLA+ sequence s holds Python's     *)
(* s[k] at s[k + 1].                                                       *)
(***************************************************************************)
EXTENDS Integers, Sequences, FiniteSets, TLC

(***************************************************************************)
(* Bounds of the model.                                                    *)
(***************************************************************************)
\* Largest num_workers a run is constructed with.
MaxWorkers == 2
\* Longest source of the map stage.
MaxLen == 4
\* The multiplier of mp.Queue(maxsize=num_workers * 100), scaled down from
\* 100 so that full queues, and with them blocked puts, are reachable.
QueueMultiplier == 1
\* Longest source of the batch stage, and its largest batch_size.
MaxBatchLen == 10
MaxBatchSize == 4
\* The bucket stage: most buckets, largest boundary, largest batch size of a
\* bucket, longest source.
MaxBuckets == 2
MaxBoundary == 3
MaxBucketBatch == 2
MaxBucketLen == 3
\* The shuffle stage: longest source, largest buffer_size.
MaxShuffleLen == 5
MaxBuffer == 3
\* Largest count of a RepeatedDataset.
MaxCount == 2

\* The payloads of the sources a transform that may raise is run on.
Values == {2, 3}

\* Sequences over S of length 0..n.
RECURSIVE SeqsUpTo(_, _)
SeqsUpTo(S, n) ==
    IF n = 0 THEN {<<>>}
    ELSE LET shorter == SeqsUpTo(S, n - 1)
         IN  shorter \cup {Append(s, x) : s \in {t \in shorter : Len(t) = n - 1}, x \in S}

(***************************************************************************)
(* State.                                                                  *)
(***************************************************************************)
VARIABLES
    \* inputs of a run, fixed at construction
    source,         \* the source's elements, in order
    num_workers,     \* num_workers
    srcFailAt,      \* index at which iterating the source raises (NoFail: never)
    failOn,         \* payload on which map_fn raises (NoFail: none)
    \* the two queues
    job_queue,
    result_queue,
    \* the job assigner process (assign_jobs)
    dpc,            \* "next" | "put" | "sentinel" | "done" | "failed"
    i,              \* enumerate's index
    sample,         \* the loop variable sample: the element last pulled
    sent,           \* sentinels put so far
    \* the worker processes (Worker.run)
    wpc,            \* per worker: "get" | "work" | "end" | "done" | "crashed"
    wjob,           \* per worker: the job it holds
    \* the consumer (the generator MappedDataset.__iter__)
    cpc,            \* "idle" | "loop" | "yield" | "done" | "assert_failed" | "stopped"
    results,        \* self.results, a heapq heap
    next_job_id,
    end_count,
    emitted,        \* the payloads yielded so far
    emittedIds,     \* the job ids of the Results yielded so far
    reordered,      \* a Result arrived before a lower-indexed one was emitted
    \* BatchedDataset: its arguments and the generator __iter__
    b_source,       \* the source's elements, in order
    batch_size,
    batch,
    b_pos,          \* elements the for loop has taken from the source
    batches,        \* the batches yielded so far
    bpc,            \* "loop" | "yield" | "tail" | "done"
    \* BucketDataset: its arguments and the generator __iter__
    k_source,       \* the source's elements, in order
    boundaries,
    batch_sizes,
    buckets,
    k_pos,          \* elements the for loop has taken from the source
    k_i,            \* the inner loop's i at the yield
    k_flush,        \* buckets the final loop has passed
    k_out,          \* the batches yielded so far, each with its bucket's index
    kpc,            \* "loop" | "yield" | "flush" | "flush_yield" | "done"
    \* ShuffledDataset: its arguments and the generator __iter__
    s_source,       \* the source's elements, in order
    buffer_size,
    buf,
    s_pos,          \* elements the for loop has taken from the source
    s_j,            \* position in buf of the sample at the yield
    s_out,          \* the samples yielded so far
    spc,            \* "loop" | "yield" | "tail" | "done"
    \* RepeatedDataset over the map stage: its argument and __iter__
    count,          \* count (NoCount: None)
    c               \* passes over the source completed

inputVars == <<source, num_workers, srcFailAt, failOn>>
dispVars  == <<dpc, i, sample, sent>>
workVars  == <<wpc, wjob>>
consVars  == <<cpc, results, next_job_id, end_count, emitted, emittedIds, reordered>>
mapVars == <<inputVars, job_queue, result_queue, dispVars, workVars, consVars>>
batchVars == <<b_source, batch_size, batch, b_pos, batches, bpc>>
bucketVars == <<k_source, boundaries, batch_sizes, buckets, k_pos, k_i, k_flush, k_out, kpc>>
shuffleVars == <<s_source, buffer_size, buf, s_pos, s_j, s_out, spc>>
repeatVars == <<count, c>>
seqVars == <<batchVars, bucketVars, shuffleVars, repeatVars>>
vars == <<mapVars, seqVars>>

NoFail == -1
NoJob == <<>>
\* The loop variable sample before the first element is bound to it.
NoSample == 0
\* Python's None, the termination sentinel of both queues.
None == <<>>

(***************************************************************************)
(* Result, and the heap of Results.                                        *)
(***************************************************************************)
\* Result(job_id, data); a job is the pair (i, sample).
Result(job_id, data) == <<job_id, data>>
JobId(r) == r[1]
Data(r) == r[2]

\* Result.__lt__
Lt(a, b) == JobId(a) < JobId(b)

\* heapq._siftdown(heap, startpos, pos), with newitem = heap[pos] on entry.
RECURSIVE SiftDown(_, _, _, _)
SiftDown(heap, startpos, pos, newitem) ==
    IF pos > startpos
    THEN LET parentpos == (pos - 1) \div 2
             parent == heap[parentpos + 1]
         IN  IF Lt(newitem, parent)
             THEN SiftDown([heap EXCEPT ![pos + 1] = parent], startpos, parentpos, newitem)
             ELSE [heap EXCEPT ![pos + 1] = newitem]
    ELSE [heap EXCEPT ![pos + 1] = newitem]

\* heapq._siftup(heap, pos): bubble the smaller child up to a leaf, then sift
\* newitem down from there.
RECURSIVE SiftUp(_, _, _, _)
SiftUp(heap, startpos, pos, newitem) ==
    LET endpos == Len(heap)
        leftpos == 2 * pos + 1
        rightpos == leftpos + 1
        childpos == IF rightpos < endpos /\ ~Lt(heap[leftpos + 1], heap[rightpos + 1])
                    THEN rightpos ELSE leftpos
    IN  IF leftpos < endpos
        THEN SiftUp([heap EXCEPT ![pos + 1] = heap[childpos + 1]], startpos, childpos, newitem)
        ELSE SiftDown([heap EXCEPT ![pos + 1] = newitem], startpos, pos, newitem)

\* heapq.heappush(heap, item)
HeapPush(heap, item) == SiftDown(Append(heap, item), 0, Len(heap), item)

\* heapq.heappop(heap): the item returned, and the heap left.
HeapPopItem(heap) == heap[1]
HeapPopRest(heap) ==
    LET lastelt == heap[Len(heap)]
        rest == SubSeq(heap, 1, Len(heap) - 1)
    IN  IF rest # <<>> THEN SiftUp([rest EXCEPT ![1] = lastelt], 0, 0, lastelt) ELSE rest

(***************************************************************************)
(* The map stage's parameters.                                             *)
(***************************************************************************)
\* map_fn, the user's transform; it raises on the payload failOn.
map_fn(x) == x * x
Raises(x) == x = failOn

\* mp.Queue(maxsize=num_workers * 100)
Capacity == num_workers * QueueMultiplier

\* A queue that blocks its producers one item late.
FullOffByOne(q) == Len(q) > Capacity

\* mp.Queue.put blocks while the queue holds maxsize items.
Full(q) == Len(q) >= Capacity

\* An assigner that puts one sentinel too few.
SentinelCountOneLess == num_workers - 1

\* range(len(self.workers)): one sentinel per worker.
SentinelCount == num_workers

Workers == 1..num_workers

(***************************************************************************)
(* Construction: MappedDataset.__init__ creates the queues and starts the  *)
(* workers and the job assigner; the generator has not been started.       *)
(***************************************************************************)
Constructed ==
    /\ job_queue = <<>>
    /\ result_queue = <<>>
    /\ dpc = "next" /\ i = 0 /\ sample = NoSample /\ sent = 0
    /\ wpc = [w \in Workers |-> "get"]
    /\ wjob = [w \in Workers |-> NoJob]
    /\ cpc = "idle"
    /\ results = <<>>
    /\ next_job_id = 0 /\ end_count = 0
    /\ emitted = <<>> /\ emittedIds = <<>> /\ reordered = FALSE

\* No batch stage and no bucket stage is part of the run.
NoBatchStage ==
    /\ b_source = <<>> /\ batch_size = 1 /\ batch = <<>>
    /\ b_pos = 0 /\ batches = <<>> /\ bpc = "done"

NoBucketStage ==
    /\ k_source = <<>> /\ boundaries = <<>> /\ batch_sizes = <<>> /\ buckets = <<>>
    /\ k_pos = 0 /\ k_i = 0 /\ k_flush = 0 /\ k_out = <<>> /\ kpc = "done"

\* No shuffle stage is part of the run.
NoShuffleStage ==
    /\ s_source = <<>> /\ buffer_size = 1 /\ buf = <<>>
    /\ s_pos = 0 /\ s_j = 0 /\ s_out = <<>> /\ spc = "done"

\* RepeatedDataset's count of None.
NoCount == -1

\* The map stage is iterated by its caller, once, not by a RepeatedDataset.
NoRepeatStage == count = 1 /\ c = 0

\* No map stage is part of the run.
NoMapStage ==
    /\ num_workers = 0 /\ source = <<>> /\ srcFailAt = NoFail /\ failOn = NoFail
    /\ job_queue = <<>> /\ result_queue = <<>>
    /\ dpc = "done" /\ i = 0 /\ sample = NoSample /\ sent = 0
    /\ wpc = <<>> /\ wjob = <<>>
    /\ cpc = "done" /\ results = <<>> /\ next_job_id = 0 /\ end_count = 0
    /\ emitted = <<>> /\ emittedIds = <<>> /\ reordered = FALSE

\* The source of n elements 2, 3, ..., n + 1.  The stage never looks into a
\* payload, it only hands it to map_fn, so runs with a transform that
\* accepts every payload differ by the source's length alone; the payloads
\* are pairwise distinct so that a Result out of place shows in the output.
Source(n) == [k \in 1..n |-> k + 1]

Init ==
    /\ num_workers \in 1..MaxWorkers
    /\ source \in {Source(n) : n \in 0..MaxLen}
    /\ srcFailAt = NoFail
    /\ failOn = NoFail
    /\ Constructed
    /\ NoBatchStage /\ NoBucketStage /\ NoShuffleStage /\ NoRepeatStage

\* Runs whose source may raise when asked for the element of some index.
SrcFailInit ==
    /\ num_workers \in 1..MaxWorkers
    /\ source \in {Source(n) : n \in 0..MaxLen}
    /\ srcFailAt \in {NoFail} \cup (0..Len(source))
    /\ failOn = NoFail
    /\ Constructed
    /\ NoBatchStage /\ NoBucketStage /\ NoShuffleStage /\ NoRepeatStage

\* Runs whose transform may raise on one of the payloads, over sources in
\* which a payload may come several times.
XfFailInit ==
    /\ num_workers \in 1..MaxWorkers
    /\ source \in SeqsUpTo(Values, MaxLen)
    /\ srcFailAt = NoFail
    /\ failOn \in Values
    /\ Constructed
    /\ NoBatchStage /\ NoBucketStage /\ NoShuffleStage /\ NoRepeatStage

(***************************************************************************)
(* The job assigner: MappedDataset.assign_jobs.                            *)
(***************************************************************************)
\* for i, sample in enumerate(self.source): the source yields its next
\* element, or is exhausted.
AssignJobsPull ==
    /\ dpc = "next"
    /\ i # srcFailAt
    /\ IF i < Len(source)
       THEN /\ sample' = source[i + 1]
            /\ dpc' = "put"
       ELSE /\ UNCHANGED sample
            /\ dpc' = IF SentinelCount > 0 THEN "sentinel" ELSE "done"
    /\ UNCHANGED <<i, sent, seqVars, inputVars, job_queue, result_queue, workVars, consVars>>

\* Iterating the source raises: the exception ends the assigner process.
AssignJobsRaise ==
    /\ dpc = "next"
    /\ i = srcFailAt
    /\ dpc' = "failed"
    /\ UNCHANGED <<i, sample, sent, seqVars, inputVars, job_queue, result_queue, workVars, consVars>>

\* An assigner whose put never blocks.
AssignJobsPutNoBlock ==
    /\ dpc = "put"
    /\ job_queue' = Append(job_queue, <<i, sample>>)
    /\ i' = i + 1
    /\ dpc' = "next"
    /\ UNCHANGED <<sample, sent, seqVars, inputVars, result_queue, workVars, consVars>>

\* self.job_queue.put((i, sample)), blocking while the queue is full.
AssignJobsPut ==
    /\ dpc = "put"
    /\ ~Full(job_queue)
    /\ job_queue' = Append(job_queue, <<i, sample>>)
    /\ i' = i + 1
    /\ dpc' = "next"
    /\ UNCHANGED <<sample, sent, seqVars, inputVars, result_queue, workVars, consVars>>

\* An assigner that puts one sentinel, whatever the number of workers.
AssignJobsSentinelOnce ==
    /\ dpc = "sentinel"
    /\ sent < SentinelCount
    /\ ~Full(job_queue)
    /\ job_queue' = Append(job_queue, None)
    /\ sent' = sent + 1
    /\ dpc' = "done"
    /\ UNCHANGED <<i, sample, seqVars, inputVars, result_queue, workVars, consVars>>

\* for _ in range(len(self.workers)): self.job_queue.put(None)
AssignJobsSentinel ==
    /\ dpc = "sentinel"
    /\ sent < SentinelCount
    /\ ~Full(job_queue)
    /\ job_queue' = Append(job_queue, None)
    /\ sent' = sent + 1
    /\ dpc' = IF sent + 1 < SentinelCount THEN "sentinel" ELSE "done"
    /\ UNCHANGED <<i, sample, seqVars, inputVars, result_queue, workVars, consVars>>

(***************************************************************************)
(* A worker: Worker.run.                                                   *)
(***************************************************************************)
\* A worker whose get reads the queue's head and leaves it there for the
\* next worker to read again; only a sentinel is removed.
WorkerGetPeek(w) ==
    /\ w <= num_workers
    /\ wpc[w] = "get"
    /\ job_queue # <<>>
    /\ IF Head(job_queue) = None
       THEN /\ job_queue' = Tail(job_queue)
            /\ wpc' = [wpc EXCEPT ![w] = "end"]
            /\ UNCHANGED wjob
       ELSE /\ job_queue' = IF \E v \in Workers : wjob[v] = Head(job_queue)
                            THEN Tail(job_queue) ELSE job_queue
            /\ wpc' = [wpc EXCEPT ![w] = "work"]
            /\ wjob' = [wjob EXCEPT ![w] = Head(job_queue)]
    /\ UNCHANGED <<seqVars, inputVars, result_queue, dispVars, consVars>>

\* job = self.job_queue.get(), blocking while the queue is empty;
\* None breaks the loop.
WorkerGet(w) ==
    /\ w <= num_workers
    /\ wpc[w] = "get"
    /\ job_queue # <<>>
    /\ job_queue' = Tail(job_queue)
    /\ IF Head(job_queue) = None
       THEN /\ wpc' = [wpc EXCEPT ![w] = "end"]
            /\ UNCHANGED wjob
       ELSE /\ wpc' = [wpc EXCEPT ![w] = "work"]
            /\ wjob' = [wjob EXCEPT ![w] = Head(job_queue)]
    /\ UNCHANGED <<seqVars, inputVars, result_queue, dispVars, consVars>>

\* A worker whose put of a Result never blocks.
WorkerPutNoBlock(w) ==
    /\ w <= num_workers
    /\ wpc[w] = "work"
    /\ ~Raises(wjob[w][2])
    /\ result_queue' = Append(result_queue, Result(wjob[w][1], map_fn(wjob[w][2])))
    /\ wpc' = [wpc EXCEPT ![w] = "get"]
    /\ wjob' = [wjob EXCEPT ![w] = NoJob]
    /\ UNCHANGED <<seqVars, inputVars, job_queue, dispVars, consVars>>

\* data = self.target(job); self.result_queue.put(Result(job_id, data)),
\* blocking while the queue is full.
WorkerPut(w) ==
    /\ w <= num_workers
    /\ wpc[w] = "work"
    /\ ~Raises(wjob[w][2])
    /\ ~Full(result_queue)
    /\ result_queue' = Append(result_queue, Result(wjob[w][1], map_fn(wjob[w][2])))
    /\ wpc' = [wpc EXCEPT ![w] = "get"]
    /\ wjob' = [wjob EXCEPT ![w] = NoJob]
    /\ UNCHANGED <<seqVars, inputVars, job_queue, dispVars, consVars>>

\* A worker that puts its sentinel from a finally clause when the transform
\* raises.
WorkerCrashThenSentinel(w) ==
    /\ w <= num_workers
    /\ wpc[w] = "work"
    /\ Raises(wjob[w][2])
    /\ ~Full(result_queue)
    /\ result_queue' = Append(result_queue, None)
    /\ wpc' = [wpc EXCEPT ![w] = "crashed"]
    /\ UNCHANGED <<wjob, seqVars, inputVars, job_queue, dispVars, consVars>>

\* self.target(job) raises: nothing catches it, the process ends holding
\* the job.
WorkerCrash(w) ==
    /\ w <= num_workers
    /\ wpc[w] = "work"
    /\ Raises(wjob[w][2])
    /\ wpc' = [wpc EXCEPT ![w] = "crashed"]
    /\ UNCHANGED <<wjob, seqVars, inputVars, job_queue, result_queue, dispVars, consVars>>

\* A worker whose last put never blocks.
WorkerEndNoBlock(w) ==
    /\ w <= num_workers
    /\ wpc[w] = "end"
    /\ result_queue' = Append(result_queue, None)
    /\ wpc' = [wpc EXCEPT ![w] = "done"]
    /\ UNCHANGED <<wjob, seqVars, inputVars, job_queue, dispVars, consVars>>

\* self.result_queue.put(None) after the loop.
WorkerEnd(w) ==
    /\ w <= num_workers
    /\ wpc[w] = "end"
    /\ ~Full(result_queue)
    /\ result_queue' = Append(result_queue, None)
    /\ wpc' = [wpc EXCEPT ![w] = "done"]
    /\ UNCHANGED <<wjob, seqVars, inputVars, job_queue, dispVars, consVars>>

(***************************************************************************)
(* The consumer: the generator MappedDataset.__iter__.                     *)
(***************************************************************************)
\* A consumer that yields the heap's least Result whatever its job id.
HeadReadyAnyOrder == results # <<>>

\* self.results and self.results[0].job_id == next_job_id
HeadReady == results # <<>> /\ JobId(results[1]) = next_job_id

\* A consumer that ends at the first worker's sentinel.
LoopConditionFirstSentinel == end_count < 1

\* while end_count < len(self.workers)
LoopCondition == end_count < num_workers

\* The first next() on the generator: next_job_id = 0; end_count = 0.
IterStart ==
    /\ cpc = "idle"
    /\ cpc' = "loop"
    /\ next_job_id' = 0
    /\ end_count' = 0
    /\ UNCHANGED <<results, emitted, emittedIds, reordered,
                   seqVars, inputVars, job_queue, result_queue, dispVars, workVars>>

\* A consumer that yields the heap's head and leaves it on the heap.
ConsumerEmitNoPop ==
    /\ cpc = "loop"
    /\ LoopCondition
    /\ HeadReady
    /\ emitted' = Append(emitted, Data(HeapPopItem(results)))
    /\ emittedIds' = Append(emittedIds, JobId(HeapPopItem(results)))
    /\ cpc' = "yield"
    /\ UNCHANGED <<results, next_job_id, end_count, reordered,
                   seqVars, inputVars, job_queue, result_queue, dispVars, workVars>>

\* result = heapq.heappop(self.results); yield result.data
ConsumerEmit ==
    /\ cpc = "loop"
    /\ LoopCondition
    /\ HeadReady
    /\ results' = HeapPopRest(results)
    /\ emitted' = Append(emitted, Data(HeapPopItem(results)))
    /\ emittedIds' = Append(emittedIds, JobId(HeapPopItem(results)))
    /\ cpc' = "yield"
    /\ UNCHANGED <<next_job_id, end_count, reordered,
                   seqVars, inputVars, job_queue, result_queue, dispVars, workVars>>

\* A consumer that skips an index when it goes on.
ConsumerResumeSkip ==
    /\ cpc = "yield"
    /\ next_job_id' = next_job_id + 2
    /\ cpc' = "loop"
    /\ UNCHANGED <<results, end_count, emitted, emittedIds, reordered,
                   seqVars, inputVars, job_queue, result_queue, dispVars, workVars>>

\* The caller asks for the next element: next_job_id += 1.
ConsumerResume ==
    /\ cpc = "yield"
    /\ next_job_id' = next_job_id + 1
    /\ cpc' = "loop"
    /\ UNCHANGED <<results, end_count, emitted, emittedIds, reordered,
                   seqVars, inputVars, job_queue, result_queue, dispVars, workVars>>

\* The caller abandons the generator suspended at its yield.
ConsumerStop ==
    /\ cpc = "yield"
    /\ cpc' = "stopped"
    /\ UNCHANGED <<results, next_job_id, end_count, emitted, emittedIds, reordered,
                   seqVars, inputVars, job_queue, result_queue, dispVars, workVars>>

\* A consumer over a result queue that hands out its newest item first.
ConsumerTakeLifo ==
    /\ cpc = "loop"
    /\ LoopCondition
    /\ ~HeadReady
    /\ result_queue # <<>>
    /\ result_queue' = SubSeq(result_queue, 1, Len(result_queue) - 1)
    /\ IF result_queue[Len(result_queue)] = None
       THEN /\ end_count' = end_count + 1
            /\ UNCHANGED <<results, reordered>>
       ELSE /\ results' = HeapPush(results, result_queue[Len(result_queue)])
            /\ reordered' = (reordered \/ JobId(result_queue[Len(result_queue)]) # next_job_id)
            /\ UNCHANGED end_count
    /\ UNCHANGED <<cpc, next_job_id, emitted, emittedIds,
                   seqVars, inputVars, job_queue, dispVars, workVars>>

\* A consumer that takes from the result queue whether or not the heap's
\* head is the next Result.
ConsumerTakeEager ==
    /\ cpc = "loop"
    /\ LoopCondition
    /\ result_queue # <<>>
    /\ result_queue' = Tail(result_queue)
    /\ IF Head(result_queue) = None
       THEN /\ end_count' = end_count + 1
            /\ UNCHANGED <<results, reordered>>
       ELSE /\ results' = HeapPush(results, Head(result_queue))
            /\ reordered' = (reordered \/ JobId(Head(result_queue)) # next_job_id)
            /\ UNCHANGED end_count
    /\ UNCHANGED <<cpc, next_job_id, emitted, emittedIds,
                   seqVars, inputVars, job_queue, dispVars, workVars>>

\* result = self.result_queue.get(), blocking while the queue is empty;
\* None counts a worker's end, a Result is pushed on the heap.
ConsumerTake ==
    /\ cpc = "loop"
    /\ LoopCondition
    /\ ~HeadReady
    /\ result_queue # <<>>
    /\ result_queue' = Tail(result_queue)
    /\ IF Head(result_queue) = None
       THEN /\ end_count' = end_count + 1
            /\ UNCHANGED <<results, reordered>>
       ELSE /\ results' = HeapPush(results, Head(result_queue))
            /\ reordered' = (reordered \/ JobId(Head(result_queue)) # next_job_id)
            /\ UNCHANGED end_count
    /\ UNCHANGED <<cpc, next_job_id, emitted, emittedIds,
                   seqVars, inputVars, job_queue, dispVars, workVars>>

\* The loop's condition fails; assert len(self.results) == 0.
ConsumerExit ==
    /\ cpc = "loop"
    /\ ~LoopCondition
    /\ cpc' = IF Len(results) = 0 THEN "done" ELSE "assert_failed"
    /\ UNCHANGED <<results, next_job_id, end_count, emitted, emittedIds, reordered,
                   seqVars, inputVars, job_queue, result_queue, dispVars, workVars>>

(***************************************************************************)
(* Specifications of the map stage.                                        *)
(***************************************************************************)
AssignJobs == AssignJobsPull \/ AssignJobsPut \/ AssignJobsSentinel
Worker(w) == WorkerGet(w) \/ WorkerPut(w) \/ WorkerEnd(w)
Consumer == IterStart \/ ConsumerEmit \/ ConsumerResume \/ ConsumerTake \/ ConsumerExit

\* A finite source, a transform that never fails, a consumer that iterates.
Next ==
    \/ AssignJobsPull
    \/ AssignJobsPut
    \/ AssignJobsSentinel
    \/ \E w \in 1..MaxWorkers : WorkerGet(w)
    \/ \E w \in 1..MaxWorkers : WorkerPut(w)
    \/ \E w \in 1..MaxWorkers : WorkerEnd(w)
    \/ IterStart
    \/ ConsumerEmit
    \/ ConsumerResume
    \/ ConsumerTake
    \/ ConsumerExit

Spec == Init /\ [][Next]_vars

\* The source may raise.
SrcFailNext ==
    \/ Next
    \/ AssignJobsRaise

SrcFailSpec == SrcFailInit /\ [][SrcFailNext]_vars

\* The transform may raise.
XfFailNext ==
    \/ Next
    \/ \E w \in 1..MaxWorkers : WorkerCrash(w)

XfFailSpec == XfFailInit /\ [][XfFailNext]_vars

\* The caller may abandon the iteration.
StopNext ==
    \/ Next
    \/ ConsumerStop

StopSpec == Init /\ [][StopNext]_vars

\* The operating system schedules every started process, and the caller
\* keeps asking the generator for its next element.
Fairness ==
    /\ WF_vars(AssignJobs)
    /\ \A w \in 1..MaxWorkers : WF_vars(Worker(w))
    /\ WF_vars(Consumer)

FairSpec == Init /\ [][Next]_vars /\ Fairness

(***************************************************************************)
(* Properties of the map stage.                                            *)
(***************************************************************************)
\* [transform(e) for e in input]
Mapped(src) == [k \in 1..Len(src) |-> map_fn(src[k])]

\* C1. Order preservation: whatever the interleaving of assigner, workers
\* and consumer, the payloads yielded so far are the transforms of the first
\* source elements in source order, and when the iteration has ended the
\* output is [transform(e) for e in input].
C1_OrderPreserved ==
    /\ Len(emitted) <= Len(source)
    /\ \A k \in 1..Len(emitted) : emitted[k] = map_fn(source[k])
    /\ cpc = "done" => emitted = Mapped(source)

\* A run of MaxWorkers workers over a longest source with two different
\* leading payloads has ended, and a Result had overtaken a lower-indexed one.
C1_Witness ==
    /\ cpc = "done"
    /\ reordered
    /\ num_workers = MaxWorkers
    /\ Len(source) = MaxLen
    /\ emitted = Mapped(source)

\* C2. No loss, no duplication: no job id is ever emitted twice, and when
\* the iteration over a source of N elements has ended exactly N Results
\* have been emitted, one for each of the ids 0..N-1.
C2_NoLossNoDuplication ==
    /\ \A a, b \in 1..Len(emittedIds) : a # b => emittedIds[a] # emittedIds[b]
    /\ cpc = "done" =>
          /\ Len(emittedIds) = Len(source)
          /\ {emittedIds[k] : k \in 1..Len(emittedIds)} = 0..(Len(source) - 1)

\* The iteration over a longest source has ended with every id emitted.
C2_Witness ==
    /\ cpc = "done"
    /\ Len(source) = MaxLen
    /\ Len(emittedIds) = MaxLen
    /\ end_count = num_workers

\* C3. Termination without hang: under fair scheduling the consumer of a
\* finite source with a transform that never fails reaches the end of its
\* iteration, having counted one sentinel per worker; before that some
\* process can always take a step; and the output of the empty source is
\* empty.
C3_TerminatesWithoutHang ==
    /\ <>(cpc = "done")
    /\ [](cpc # "done" => ENABLED Next)
    /\ [](cpc = "done" => end_count = num_workers)
    /\ [](cpc = "done" /\ source = <<>> => emitted = <<>>)

\* The iteration over the empty source has ended, with MaxWorkers workers.
C3_Witness ==
    /\ cpc = "done"
    /\ source = <<>>
    /\ emitted = <<>>
    /\ num_workers = MaxWorkers
    /\ \A w \in Workers : wpc[w] = "done"

\* The Jobs and Results in flight: put by the assigner and not yet yielded,
\* wherever they are.
IsItem(x) == x # None
ItemsIn(q) == Cardinality({k \in 1..Len(q) : IsItem(q[k])})
HeldByWorkers == Cardinality({w \in Workers : wpc[w] \in {"work", "crashed"}})
InFlight == ItemsIn(job_queue) + HeldByWorkers + ItemsIn(result_queue) + Len(results)

\* C4 as stated. Backpressure bound: the Jobs and Results in flight (in the
\* work queue, held by a worker, in the result queue or in the pending
\* buffer) never number more than C_work + C_result + workers.
C4_BackpressureBound ==
    InFlight <= Capacity + Capacity + num_workers

\* C4 as amended. The Jobs and Results in the work queue, held by a worker
\* or in the result queue, those in the pending buffer not counted, never
\* number more than C_work + C_result + workers.
C4_QueuesAndWorkersBound ==
    ItemsIn(job_queue) + HeldByWorkers + ItemsIn(result_queue)
        <= Capacity + Capacity + num_workers

\* Both queues are full of Jobs and Results and every worker holds a Job,
\* while the pending buffer holds a Result as well.
C4_Witness ==
    /\ ItemsIn(job_queue) = Capacity
    /\ ItemsIn(result_queue) = Capacity
    /\ HeldByWorkers = num_workers
    /\ Len(results) >= 1

\* The only failure the generator can end in: its assertion.
ConsumerFailed == cpc = "assert_failed"

\* C5. Source failure is surfaced: once iterating the source has raised in
\* the assigner, the consumer does not end its iteration normally, and when
\* no process can step any more it has ended in a failure.
C5_SourceFailureSurfaced ==
    dpc = "failed" =>
        /\ cpc # "done"
        /\ ~ENABLED SrcFailNext => ConsumerFailed
\* Where the Results are: the job ids in a queue, in the pending buffer.
IdsIn(q) == {JobId(q[k]) : k \in {n \in 1..Len(q) : IsItem(q[n])}}
SentinelsIn(q) == Len(q) - ItemsIn(q)
Crashed == {w \in Workers : wpc[w] = "crashed"}

\* C6. Transform failure stalls the stage: when the transform has raised on
\* the Job with index i, the worker that took it has ended without a Result
\* for i and without its sentinel; no Result with an index >= i is ever
\* emitted, the consumer's count of ended workers stays below the number of
\* workers and its iteration does not end; and when no process can step any
\* more the consumer is blocked on the empty result queue while every worker
\* that did not fail has ended normally.
C6_TransformFailureStalls ==
    \A w \in Crashed :
        /\ wjob[w][1] \notin IdsIn(result_queue) \cup IdsIn(results)
        /\ \A k \in 1..Len(emittedIds) : emittedIds[k] < wjob[w][1]
        /\ end_count + SentinelsIn(result_queue) <= num_workers - Cardinality(Crashed)
        /\ end_count < num_workers
        /\ cpc \in {"idle", "loop", "yield"}
        /\ ~ENABLED XfFailNext =>
              /\ cpc = "loop"
              /\ LoopCondition /\ ~HeadReady /\ result_queue = <<>>
              /\ \A v \in Workers \ Crashed : wpc[v] = "done"

\* The transform raised on the Job with index 1: the consumer has emitted
\* the Result 0 and is blocked for good, while the other worker has ended.
C6_Witness ==
    /\ num_workers = MaxWorkers
    /\ \E w \in Crashed : wjob[w][1] = 1
    /\ \E v \in Workers : wpc[v] = "done"
    /\ emittedIds = <<0>>
    /\ cpc = "loop"
    /\ ~ENABLED XfFailNext

\* The stage has done nothing yet.
Untouched ==
    /\ dpc = "next" /\ i = 0 /\ sample = NoSample
    /\ job_queue = <<>> /\ result_queue = <<>>
    /\ \A w \in Workers : wpc[w] = "get"

\* C7 as stated. Lazy start: until the consumer's first iteration step no
\* Job is created or put, no worker takes or transforms a Job and the
\* source is not pulled.
C7_LazyStart ==
    cpc = "idle" => Untouched

\* C7 as amended. The queues, the assigner and the workers are created and
\* started by the constructor: before the consumer's first iteration step
\* the assigner may pull the source and put Jobs and the workers may take
\* and transform them, as far as the queues let them (at most
\* C_work + C_result + workers Jobs put, all of them still in a queue or in
\* a worker); only the consumer's part has not begun: nothing is taken from
\* the result queue and nothing is emitted.
C7_EagerStart ==
    cpc = "idle" =>
        /\ results = <<>> /\ emitted = <<>>
        /\ next_job_id = 0 /\ end_count = 0
        /\ i = ItemsIn(job_queue) + HeldByWorkers + ItemsIn(result_queue)
        /\ i <= Capacity + Capacity + num_workers

\* Before the consumer's first step both queues are full, every worker
\* holds a Job, and the assigner has pulled one more element.
C7_Witness ==
    /\ cpc = "idle"
    /\ Full(job_queue) /\ Full(result_queue)
    /\ \A w \in Workers : wpc[w] = "work"
    /\ dpc = "put"
    /\ i = Capacity + Capacity + num_workers

\* The assigner and every worker have run to completion.
AllExited == dpc = "done" /\ \A w \in Workers : wpc[w] = "done"

\* The Results and sentinels the consumer has not taken from the result
\* queue.
Untaken ==
    (Len(source) - (Len(emittedIds) + Len(results))) + (num_workers - end_count)

\* C8 as stated. Early stop: when the consumer has stopped iterating, the
\* assigner and the workers run to completion, whatever the source's
\* length: once no process can step any more, all of them have exited.
C8_RunToCompletion ==
    (cpc = "stopped" /\ ~ENABLED StopNext) => AllExited

\* C8 as amended. When the consumer has stopped iterating, the assigner and
\* the workers are left running, and they run to completion exactly when
\* the Results and sentinels the consumer has not taken number at most
\* C_result; otherwise they end up blocked for good with the result queue
\* full.
C8_RunUntilQueuesFull ==
    (cpc = "stopped" /\ ~ENABLED StopNext) =>
        IF Untaken <= Capacity
        THEN AllExited /\ Len(result_queue) = Untaken
        ELSE /\ ~AllExited
             /\ Full(result_queue)
             /\ \E w \in Workers : wpc[w] \in {"work", "end"}

\* The consumer stopped before the end of the output, and the assigner and
\* the workers have run to completion all the same.
C8_Witness ==
    /\ cpc = "stopped"
    /\ Len(emitted) < Len(source)
    /\ num_workers = MaxWorkers
    /\ AllExited
    /\ ~ENABLED StopNext

(***************************************************************************)
(* BatchedDataset: the generator __iter__.  A yield suspends the generator *)
(* until the caller asks for the next batch.                               *)
(***************************************************************************)
\* collate_fn, the user's function from a list of samples to a batch: here
\* the batch is the list of its samples.
collate_fn(samples) == samples

BatchInit ==
    /\ b_source \in {Source(n) : n \in 0..MaxBatchLen}
    /\ batch_size \in 1..MaxBatchSize
    /\ batch = <<>>
    /\ b_pos = 0
    /\ batches = <<>>
    /\ bpc = "loop"
    /\ NoMapStage /\ NoBucketStage /\ NoShuffleStage /\ NoRepeatStage

\* for sample in self.source: batch.append(sample);
\* if len(batch) == self.batch_size: yield self.collate_fn(batch)
BatchAppend ==
    /\ bpc = "loop"
    /\ b_pos < Len(b_source)
    /\ b_pos' = b_pos + 1
    /\ batch' = Append(batch, b_source[b_pos + 1])
    /\ IF Len(batch') = batch_size
       THEN /\ batches' = Append(batches, collate_fn(batch'))
            /\ bpc' = "yield"
       ELSE UNCHANGED <<batches, bpc>>
    /\ UNCHANGED <<b_source, batch_size, mapVars, bucketVars, shuffleVars, repeatVars>>

\* The caller asks for the next batch: batch = []
BatchResume ==
    /\ bpc = "yield"
    /\ batch' = <<>>
    /\ bpc' = "loop"
    /\ UNCHANGED <<b_source, batch_size, b_pos, batches, mapVars, bucketVars, shuffleVars, repeatVars>>

\* A generator that drops the last, partial batch.
HasPartialBatchNever == batch # <<>> /\ Len(batch) = batch_size

\* if batch:
HasPartialBatch == batch # <<>>

\* The source is exhausted: if batch: yield self.collate_fn(batch)
BatchTail ==
    /\ bpc = "loop"
    /\ b_pos = Len(b_source)
    /\ IF HasPartialBatch
       THEN /\ batches' = Append(batches, collate_fn(batch))
            /\ bpc' = "tail"
       ELSE /\ bpc' = "done"
            /\ UNCHANGED batches
    /\ UNCHANGED <<b_source, batch_size, batch, b_pos, mapVars, bucketVars, shuffleVars, repeatVars>>

\* The caller asks for the batch after the last: the generator returns.
BatchEnd ==
    /\ bpc = "tail"
    /\ bpc' = "done"
    /\ UNCHANGED <<b_source, batch_size, batch, b_pos, batches, mapVars, bucketVars, shuffleVars, repeatVars>>

BatchNext ==
    \/ BatchAppend
    \/ BatchResume
    \/ BatchTail
    \/ BatchEnd

BatchSpec == BatchInit /\ [][BatchNext]_vars

\* The concatenation of the first n sequences of ss.
RECURSIVE Concat(_, _)
Concat(ss, n) == IF n = 0 THEN <<>> ELSE Concat(ss, n - 1) \o ss[n]

\* ceil(n / b)
CeilDiv(n, b) == (n + b - 1) \div b

\* C9. Fixed batch: no batch yielded is empty or holds more than batch_size
\* elements, every batch but the last one of the finished iteration holds
\* exactly batch_size, the batches yielded so far are the source's first
\* elements in order, and the finished iteration over n elements has
\* yielded ceil(n / batch_size) batches whose concatenation is the source.
C9_FixedBatch ==
    /\ \A k \in 1..Len(batches) : Len(batches[k]) \in 1..batch_size
    /\ \A k \in 1..(Len(batches) - 1) : Len(batches[k]) = batch_size
    /\ bpc \in {"loop", "yield"} /\ batches # <<>> =>
          Len(batches[Len(batches)]) = batch_size
    /\ LET out == Concat(batches, Len(batches))
       IN  out = SubSeq(b_source, 1, Len(out))
    /\ bpc = "done" =>
          /\ Len(batches) = CeilDiv(Len(b_source), batch_size)
          /\ Concat(batches, Len(batches)) = b_source

\* batch_size 4 over 10 elements has yielded batches of sizes 4, 4, 2.
C9_Witness ==
    /\ bpc = "done"
    /\ batch_size = 4
    /\ Len(b_source) = 10
    /\ Len(batches) = 3
    /\ Len(batches[1]) = 4 /\ Len(batches[2]) = 4 /\ Len(batches[3]) = 2

(***************************************************************************)
(* BucketDataset: the generator __iter__.                                  *)
(***************************************************************************)
\* The sample at position p of a source, of length len: a sentence of len
\* tokens that all say p, so that samples of one source differ.
Sample(p, len) == [t \in 1..len |-> p]

\* length_fn, the user's function: here the number of tokens.
length_fn(samp) == Len(samp)

\* The strictly increasing sequences over 1..top of length 1..n.
Increasing(top, n) ==
    {b \in SeqsUpTo(1..top, n) :
        /\ b # <<>>
        /\ \A k \in 1..(Len(b) - 1) : b[k] < b[k + 1]}

\* The sources of up to n samples with lengths in 1..top.
Sentences(top, n) ==
    {[p \in 1..Len(ls) |-> Sample(p, ls[p])] : ls \in SeqsUpTo(1..top, n)}

BucketInit ==
    /\ boundaries \in Increasing(MaxBoundary, MaxBuckets)
    /\ batch_sizes \in [1..Len(boundaries) -> 1..MaxBucketBatch]
    /\ k_source \in Sentences(MaxBoundary + 1, MaxBucketLen)
    /\ buckets = [b \in 1..Len(boundaries) |-> <<>>]
    /\ k_pos = 0 /\ k_i = 0 /\ k_flush = 0
    /\ k_out = <<>>
    /\ kpc = "loop"
    /\ NoMapStage /\ NoBatchStage /\ NoShuffleStage /\ NoRepeatStage

\* No boundary admits the length.
NoBucket == -1

\* A search that admits a length only below the boundary.
RECURSIVE FirstBucketBelow(_, _)
FirstBucketBelow(length, n) ==
    IF n >= Len(boundaries) THEN NoBucket
    ELSE IF length < boundaries[n + 1] THEN n
    ELSE FirstBucketBelow(length, n + 1)

\* for i, boundary in enumerate(self.boundaries): if length <= boundary:
\* ... break.  The i the loop stops at, searching from n on.
RECURSIVE FirstBucket(_, _)
FirstBucket(length, n) ==
    IF n >= Len(boundaries) THEN NoBucket
    ELSE IF length <= boundaries[n + 1] THEN n
    ELSE FirstBucket(length, n + 1)

\* for sample in self.source: the sample goes to the first bucket whose
\* boundary admits its length, if any, and a bucket that reaches its batch
\* size is yielded.
BucketAppend ==
    /\ kpc = "loop"
    /\ k_pos < Len(k_source)
    /\ k_pos' = k_pos + 1
    /\ LET samp == k_source[k_pos + 1]
           n == FirstBucket(length_fn(samp), 0)
       IN  IF n = NoBucket
           THEN UNCHANGED <<buckets, k_i, k_out, kpc>>
           ELSE /\ buckets' = [buckets EXCEPT ![n + 1] = Append(@, samp)]
                /\ k_i' = n
                /\ IF Len(buckets'[n + 1]) = batch_sizes[n + 1]
                   THEN /\ k_out' = Append(k_out, <<n, collate_fn(buckets'[n + 1])>>)
                        /\ kpc' = "yield"
                   ELSE UNCHANGED <<k_out, kpc>>
    /\ UNCHANGED <<k_source, boundaries, batch_sizes, k_flush, mapVars, batchVars, shuffleVars, repeatVars>>

\* A generator that goes on without emptying the bucket it has yielded.
BucketResumeKeep ==
    /\ kpc = "yield"
    /\ kpc' = "loop"
    /\ UNCHANGED <<k_source, boundaries, batch_sizes, buckets, k_pos, k_i, k_flush, k_out,
                   mapVars, batchVars, shuffleVars, repeatVars>>

\* The caller asks for the next batch: buckets[i] = []; break
BucketResume ==
    /\ kpc = "yield"
    /\ buckets' = [buckets EXCEPT ![k_i + 1] = <<>>]
    /\ kpc' = "loop"
    /\ UNCHANGED <<k_source, boundaries, batch_sizes, k_pos, k_i, k_flush, k_out,
                   mapVars, batchVars, shuffleVars, repeatVars>>

\* The source is exhausted: the final loop over the buckets begins.
BucketExhausted ==
    /\ kpc = "loop"
    /\ k_pos = Len(k_source)
    /\ k_flush' = 0
    /\ kpc' = "flush"
    /\ UNCHANGED <<k_source, boundaries, batch_sizes, buckets, k_pos, k_i, k_out,
                   mapVars, batchVars, shuffleVars, repeatVars>>

\* for bucket in buckets: if bucket: yield self.collate_fn(bucket)
BucketFlush ==
    /\ kpc = "flush"
    /\ IF k_flush < Len(buckets)
       THEN IF buckets[k_flush + 1] # <<>>
            THEN /\ k_out' = Append(k_out, <<k_flush, collate_fn(buckets[k_flush + 1])>>)
                 /\ kpc' = "flush_yield"
                 /\ UNCHANGED k_flush
            ELSE /\ k_flush' = k_flush + 1
                 /\ UNCHANGED <<k_out, kpc>>
       ELSE /\ kpc' = "done"
            /\ UNCHANGED <<k_out, k_flush>>
    /\ UNCHANGED <<k_source, boundaries, batch_sizes, buckets, k_pos, k_i,
                   mapVars, batchVars, shuffleVars, repeatVars>>

\* The caller asks for the next batch: the final loop goes on.
BucketFlushResume ==
    /\ kpc = "flush_yield"
    /\ k_flush' = k_flush + 1
    /\ kpc' = "flush"
    /\ UNCHANGED <<k_source, boundaries, batch_sizes, buckets, k_pos, k_i, k_out,
                   mapVars, batchVars, shuffleVars, repeatVars>>

BucketNext ==
    \/ BucketAppend
    \/ BucketResume
    \/ BucketExhausted
    \/ BucketFlush
    \/ BucketFlushResume

BucketSpec == BucketInit /\ [][BucketNext]_vars

\* The buckets whose boundary admits a length, and the first of them.
Fits(len) == {n \in 0..(Len(boundaries) - 1) : len <= boundaries[n + 1]}
Expected(len) ==
    IF Fits(len) = {} THEN NoBucket
    ELSE CHOOSE n \in Fits(len) : \A m \in Fits(len) : n <= m

\* How often a sample is held in the buckets, and how often it comes in the
\* batches yielded.
Held(samp) ==
    Cardinality({nj \in (1..Len(buckets)) \X (1..MaxBucketBatch) :
                    /\ nj[2] <= Len(buckets[nj[1]])
                    /\ buckets[nj[1]][nj[2]] = samp})
Yielded(samp) ==
    Cardinality({kj \in (1..Len(k_out)) \X (1..MaxBucketBatch) :
                    /\ kj[2] <= Len(k_out[kj[1]][2])
                    /\ k_out[kj[1]][2][kj[2]] = samp})

\* C10. Bucket assignment, for strictly increasing boundaries: a sample is
\* only ever held in, and yielded from, the first bucket whose boundary is
\* at least its length, so a sample as long as a boundary is in that
\* boundary's bucket and not in the next; a sample longer than every
\* boundary is in no bucket and in no batch; every other sample taken from
\* the source is in exactly one place, and in exactly one yielded batch when
\* the iteration has ended.
C10_BucketAssignment ==
    /\ \A n \in 1..Len(buckets) : \A j \in 1..Len(buckets[n]) :
          LET len == length_fn(buckets[n][j])
          IN  /\ Expected(len) = n - 1
              /\ len <= boundaries[n]
              /\ n > 1 => len > boundaries[n - 1]
    /\ \A k \in 1..Len(k_out) : \A j \in 1..Len(k_out[k][2]) :
          Expected(length_fn(k_out[k][2][j])) = k_out[k][1]
    /\ kpc = "loop" =>
          \A p \in 1..Len(k_source) :
              Held(k_source[p]) + Yielded(k_source[p]) =
                  IF p <= k_pos /\ Fits(length_fn(k_source[p])) # {} THEN 1 ELSE 0
    /\ kpc = "done" =>
          \A p \in 1..Len(k_source) :
              Yielded(k_source[p]) =
                  IF Fits(length_fn(k_source[p])) # {} THEN 1 ELSE 0

\* The iteration over a longest source with two buckets has ended: a sample
\* as long as the first boundary was yielded from bucket 0, one as long as
\* the second boundary from bucket 1, and one longer than both in no batch.
C10_Witness ==
    /\ kpc = "done"
    /\ Len(boundaries) = 2
    /\ Len(k_source) = MaxBucketLen
    /\ \E p, q, r \in 1..Len(k_source) :
          /\ length_fn(k_source[p]) = boundaries[1]
          /\ \E k \in 1..Len(k_out) :
                k_out[k][1] = 0 /\ \E j \in 1..Len(k_out[k][2]) : k_out[k][2][j] = k_source[p]
          /\ length_fn(k_source[q]) = boundaries[2]
          /\ \E k \in 1..Len(k_out) :
                k_out[k][1] = 1 /\ \E j \in 1..Len(k_out[k][2]) : k_out[k][2][j] = k_source[q]
          /\ length_fn(k_source[r]) > boundaries[2]
          /\ Yielded(k_source[r]) = 0

\* A length belongs in bucket n: boundary n admits it and no earlier one.
Belongs(len, n) ==
    /\ len <= boundaries[n + 1]
    /\ \A m \in 0..(n - 1) : len > boundaries[m + 1]

\* The samples among the first p of the source that belong in bucket n.
Assigned(n, p) ==
    Cardinality({q \in 1..p : Belongs(length_fn(k_source[q]), n)})

\* The batches yielded that hold their bucket's batch size, and those that
\* hold less.
IsFullBatch(e) == Len(e[2]) = batch_sizes[e[1] + 1]
IsPartialBatch(e) == Len(e[2]) < batch_sizes[e[1] + 1]
FullBatchesOf(n) ==
    Cardinality({k \in 1..Len(k_out) : k_out[k][1] = n /\ IsFullBatch(k_out[k])})

\* The final batches of the non-empty buckets 0..m-1, in bucket order.
RECURSIVE FinalBatches(_)
FinalBatches(m) ==
    IF m = 0 THEN <<>>
    ELSE IF buckets[m] # <<>>
         THEN Append(FinalBatches(m - 1), <<m - 1, collate_fn(buckets[m])>>)
         ELSE FinalBatches(m - 1)

\* C11. Bucket emission: a batch is yielded for bucket i exactly when the
\* bucket reaches s_i elements (the full batches of a bucket number the
\* samples assigned to it so far divided by s_i, and the bucket holds the
\* remainder), the bucket suspended at its yield holds the s_i elements just
\* yielded and is emptied when the generator goes on, so that between the
\* steps of the loop no bucket holds more than s_i - 1; at source exhaustion
\* the batches yielded after the full ones are exactly one partial batch for
\* each non-empty bucket, in bucket order 0..n-1, and none for an empty one.
C11_BucketEmission ==
    /\ \A n \in 0..(Len(buckets) - 1) :
          LET assigned == Assigned(n, k_pos)
          IN  /\ FullBatchesOf(n) = assigned \div batch_sizes[n + 1]
              /\ IF kpc = "yield" /\ n = k_i
                 THEN /\ Len(buckets[n + 1]) = batch_sizes[n + 1]
                      /\ k_out[Len(k_out)] = <<n, collate_fn(buckets[n + 1])>>
                 ELSE /\ Len(buckets[n + 1]) <= batch_sizes[n + 1] - 1
                      /\ Len(buckets[n + 1]) = assigned % batch_sizes[n + 1]
    /\ \A k \in 1..Len(k_out) : Len(k_out[k][2]) \in 1..batch_sizes[k_out[k][1] + 1]
    /\ kpc \in {"loop", "yield"} => \A k \in 1..Len(k_out) : IsFullBatch(k_out[k])
    /\ kpc \in {"flush", "flush_yield", "done"} =>
          LET passed == IF kpc = "flush_yield" THEN k_flush + 1 ELSE k_flush
          IN  k_out = SelectSeq(k_out, IsFullBatch) \o FinalBatches(passed)
    /\ kpc = "done" => k_flush = Len(buckets)

\* The iteration over a longest source with batch sizes 2 and 2 has ended:
\* bucket 1 reached its size and was yielded and emptied in the loop, and at
\* exhaustion bucket 0 yielded its one sample and the empty bucket 1 nothing.
C11_Witness ==
    /\ kpc = "done"
    /\ batch_sizes = <<2, 2>>
    /\ Len(k_source) = MaxBucketLen
    /\ Len(k_out) = 2
    /\ k_out[1][1] = 1 /\ Len(k_out[1][2]) = 2
    /\ k_out[2][1] = 0 /\ Len(k_out[2][2]) = 1
    /\ buckets[2] = <<>>

(***************************************************************************)
(* ShuffledDataset: the generator __iter__.                                *)
(***************************************************************************)
ShuffleInit ==
    /\ s_source \in {Source(n) : n \in 0..MaxShuffleLen}
    /\ buffer_size \in 1..MaxBuffer
    /\ buf = <<>>
    /\ s_pos = 0 /\ s_j = 0
    /\ s_out = <<>>
    /\ spc = "loop"
    /\ NoMapStage /\ NoBatchStage /\ NoBucketStage /\ NoRepeatStage

\* The permutations of 1..n.
PermutationsOf(n) ==
    {f \in [1..n -> 1..n] : \A a, b \in 1..n : a # b => f[a] # f[b]}

\* random.shuffle(buf): the orders it may leave the list in.
Shuffled(b) ==
    {[k \in 1..Len(b) |-> b[f[k]]] : f \in PermutationsOf(Len(b))}

\* for sample in self.source: buf.append(sample);
\* if len(buf) == self.buffer_size: random.shuffle(buf), and the first
\* sample of the shuffled window is yielded.
ShuffleAppend ==
    /\ spc = "loop"
    /\ s_pos < Len(s_source)
    /\ s_pos' = s_pos + 1
    /\ LET b == Append(buf, s_source[s_pos + 1])
       IN  IF Len(b) = buffer_size
           THEN /\ buf' \in Shuffled(b)
                /\ s_j' = 0
                /\ s_out' = Append(s_out, buf'[1])
                /\ spc' = "yield"
           ELSE /\ buf' = b
                /\ UNCHANGED <<s_j, s_out, spc>>
    /\ UNCHANGED <<s_source, buffer_size, mapVars, batchVars, bucketVars, repeatVars>>

\* The caller asks for the next sample: for sample in buf: yield sample
\* goes on, and after the window's last sample buf = [].
ShuffleResume ==
    /\ spc = "yield"
    /\ IF s_j + 1 < Len(buf)
       THEN /\ s_j' = s_j + 1
            /\ s_out' = Append(s_out, buf[s_j + 2])
            /\ UNCHANGED <<buf, spc>>
       ELSE /\ buf' = <<>>
            /\ spc' = "loop"
            /\ UNCHANGED <<s_j, s_out>>
    /\ UNCHANGED <<s_source, buffer_size, s_pos, mapVars, batchVars, bucketVars, repeatVars>>

\* A generator that shuffles the final partial window as well.
ShuffleExhaustedShuffled ==
    /\ spc = "loop"
    /\ s_pos = Len(s_source)
    /\ IF buf # <<>>
       THEN /\ buf' \in Shuffled(buf)
            /\ s_j' = 0
            /\ s_out' = Append(s_out, buf'[1])
            /\ spc' = "tail"
       ELSE /\ spc' = "done"
            /\ UNCHANGED <<buf, s_j, s_out>>
    /\ UNCHANGED <<s_source, buffer_size, s_pos, mapVars, batchVars, bucketVars, repeatVars>>

\* The source is exhausted: if buf: for sample in buf: yield sample
ShuffleExhausted ==
    /\ spc = "loop"
    /\ s_pos = Len(s_source)
    /\ IF buf # <<>>
       THEN /\ s_j' = 0
            /\ s_out' = Append(s_out, buf[1])
            /\ spc' = "tail"
       ELSE /\ spc' = "done"
            /\ UNCHANGED <<s_j, s_out>>
    /\ UNCHANGED <<s_source, buffer_size, buf, s_pos, mapVars, batchVars, bucketVars, repeatVars>>

\* The caller asks for the next sample of the final window, or for the one
\* after the last: the generator returns.
ShuffleTailResume ==
    /\ spc = "tail"
    /\ IF s_j + 1 < Len(buf)
       THEN /\ s_j' = s_j + 1
            /\ s_out' = Append(s_out, buf[s_j + 2])
            /\ UNCHANGED spc
       ELSE /\ spc' = "done"
            /\ UNCHANGED <<s_j, s_out>>
    /\ UNCHANGED <<s_source, buffer_size, buf, s_pos, mapVars, batchVars, bucketVars, repeatVars>>

ShuffleNext ==
    \/ ShuffleAppend
    \/ ShuffleResume
    \/ ShuffleExhausted
    \/ ShuffleTailResume

ShuffleSpec == ShuffleInit /\ [][ShuffleNext]_vars

\* How often x comes in a, and whether a is b in some order.
Count(a, x) == Cardinality({k \in 1..Len(a) : a[k] = x})
Elements(a) == {a[k] : k \in 1..Len(a)}
IsPermutation(a, b) ==
    /\ Len(a) = Len(b)
    /\ \A x \in Elements(a) \cup Elements(b) : Count(a, x) = Count(b, x)

\* The full windows of buffer_size consecutive source elements.
FullWindows == Len(s_source) \div buffer_size

\* C12. Windowed shuffle: the samples yielded so far lie window by window
\* over the source, each from the window of its position and none twice,
\* those of the final partial window in source order; and the output of
\* the finished iteration is, in window order, a permutation of each full
\* window of buffer_size consecutive source elements followed by the final
\* partial window unchanged, hence a permutation of the source, and the
\* source itself when buffer_size is 1.
C12_WindowedShuffle ==
    /\ Len(s_out) <= Len(s_source)
    /\ \A p \in 1..Len(s_out) :
          LET k == (p - 1) \div buffer_size
          IN  IF k < FullWindows
              THEN /\ \E q \in (k * buffer_size + 1)..((k + 1) * buffer_size) :
                         s_out[p] = s_source[q]
                   /\ \A r \in 1..Len(s_out) : r # p => s_out[r] # s_out[p]
              ELSE s_out[p] = s_source[p]
    /\ spc = "done" =>
          /\ \A k \in 0..(FullWindows - 1) :
                IsPermutation(SubSeq(s_out, k * buffer_size + 1, (k + 1) * buffer_size),
                              SubSeq(s_source, k * buffer_size + 1, (k + 1) * buffer_size))
          /\ SubSeq(s_out, FullWindows * buffer_size + 1, Len(s_out)) =
                SubSeq(s_source, FullWindows * buffer_size + 1, Len(s_source))
          /\ IsPermutation(s_out, s_source)
          /\ buffer_size = 1 => s_out = s_source

\* The iteration over a longest source with buffer_size 3 has ended: the
\* one full window came out in another order, the two samples of the final
\* partial window in the source's.
C12_Witness ==
    /\ spc = "done"
    /\ buffer_size = 3
    /\ Len(s_source) = MaxShuffleLen
    /\ SubSeq(s_out, 1, 3) # SubSeq(s_source, 1, 3)
    /\ IsPermutation(SubSeq(s_out, 1, 3), SubSeq(s_source, 1, 3))
    /\ SubSeq(s_out, 4, Len(s_out)) = SubSeq(s_source, 4, Len(s_source))
    /\ Len(s_out) = Len(s_source)

(***************************************************************************)
(* Further properties of the map stage.                                    *)
(***************************************************************************)
\* C13. Emit-only-expected: the Result the consumer emits is the one whose
\* job id is next_job_id at the moment of the emission, and next_job_id
\* advances by exactly 1 for each emission, when the generator goes on after
\* its yield; so the ids emitted are 0, 1, 2, ... with no gap and no repeat.
C13_EmitOnlyExpected ==
    /\ [](/\ \A k \in 1..Len(emittedIds) : emittedIds[k] = k - 1
          /\ cpc = "yield" =>
                emittedIds # <<>> /\ emittedIds[Len(emittedIds)] = next_job_id
          /\ cpc # "yield" => next_job_id = Len(emittedIds))
    /\ [][/\ emittedIds' # emittedIds =>
                /\ HeadReady
                /\ emittedIds' = Append(emittedIds, next_job_id)
                /\ next_job_id' = next_job_id
          /\ next_job_id' # next_job_id =>
                /\ cpc = "yield"
                /\ next_job_id' = next_job_id + 1
                /\ emittedIds' = emittedIds]_vars

\* The consumer is suspended at the yield of the last Result of a longest
\* source, after a Result had arrived ahead of a lower-indexed one.
C13_Witness ==
    /\ cpc = "yield"
    /\ reordered
    /\ num_workers = MaxWorkers
    /\ Len(source) = MaxLen
    /\ next_job_id = MaxLen - 1
    /\ emittedIds[Len(emittedIds)] = next_job_id

\* The consumer's loop has been left: its condition fails, or the generator
\* has gone past it.
LoopExited == (cpc = "loop" /\ ~LoopCondition) \/ cpc \in {"done", "assert_failed"}

\* C14. Terminal drain: when the consumer's loop is left because end_count
\* equals the number of workers, the pending buffer is empty, so the
\* assertion len(self.results) == 0 never fails; and no Job or Result is
\* left in the work queue, in a worker, in the result queue or in the
\* pending buffer: every one of them has been emitted.
C14_TerminalDrain ==
    /\ cpc # "assert_failed"
    /\ LoopExited =>
          /\ end_count = num_workers
          /\ results = <<>>
          /\ ItemsIn(job_queue) = 0
          /\ HeldByWorkers = 0
          /\ ItemsIn(result_queue) = 0
          /\ Len(emittedIds) = Len(source)

\* The loop over a longest source with MaxWorkers workers is being left,
\* the assertion not yet evaluated, after Results had waited in the pending
\* buffer.
C14_Witness ==
    /\ cpc = "loop"
    /\ ~LoopCondition
    /\ reordered
    /\ num_workers = MaxWorkers
    /\ Len(source) = MaxLen
    /\ results = <<>>

\* The workers that have taken their sentinel, and those that have put one.
Ended == {w \in Workers : wpc[w] \in {"end", "done"}}
Exited == {w \in Workers : wpc[w] = "done"}

\* C15. Sentinel protocol: the assigner puts sentinels only when it has put
\* the Job of every source element, one per worker, so that no Job lies
\* behind a sentinel in the work queue; a worker takes one sentinel and
\* after it takes no Job and no further sentinel; a worker puts one sentinel
\* on the result queue, in its last step, holding no Job, and puts nothing
\* after it; so the sentinels the consumer has counted and those waiting
\* for it are one per exited worker, num_workers in all at the end.
C15_SentinelProtocol ==
    /\ [](/\ sent <= num_workers
          /\ sent > 0 => i = Len(source) /\ dpc \in {"sentinel", "done"}
          /\ dpc = "done" => sent = num_workers
          /\ \A a, b \in 1..Len(job_queue) :
                a < b /\ job_queue[a] = None => job_queue[b] = None
          /\ Cardinality(Ended) + SentinelsIn(job_queue) = sent
          /\ \A w \in Ended : wjob[w] = NoJob
          /\ Cardinality(Exited) = SentinelsIn(result_queue) + end_count
          /\ cpc = "done" =>
                /\ end_count = num_workers
                /\ result_queue = <<>> /\ job_queue = <<>>
                /\ Exited = Workers)
    /\ [][/\ SentinelsIn(job_queue') > SentinelsIn(job_queue) =>
                /\ i = Len(source)
                /\ job_queue' = Append(job_queue, None)
          /\ \A w \in Workers :
                /\ wpc[w] \in {"end", "done"} =>
                      wpc'[w] \in {"end", "done"} /\ wjob'[w] = wjob[w]
                /\ wpc[w] = "done" => wpc'[w] = "done"
                /\ wpc[w] # "end" /\ wpc'[w] = "end" =>
                      Head(job_queue) = None /\ job_queue' = Tail(job_queue)
                /\ wpc[w] = "end" /\ wpc'[w] = "done" =>
                      result_queue' = Append(result_queue, None)
          /\ Len(result_queue') > Len(result_queue) =>
                \E w \in Workers : wpc[w] \in {"work", "end"} /\ wpc'[w] # wpc[w]]_vars

\* One worker has exited, its sentinel waiting in the result queue behind a
\* Result, while the other still holds a Job and its sentinel waits in the
\* work queue.
C15_Witness ==
    /\ num_workers = MaxWorkers
    /\ Len(source) = MaxLen
    /\ dpc = "done"
    /\ \E w, v \in Workers : wpc[w] = "done" /\ wpc[v] = "work"
    /\ job_queue = <<None>>
    /\ Len(result_queue) >= 2
    /\ result_queue[Len(result_queue)] = None
    /\ result_queue[Len(result_queue) - 1] # None

\* The Jobs the workers have taken from the work queue: those they hold and
\* those whose Result is in the result queue, in the pending buffer or
\* emitted.
JobsTaken == HeldByWorkers + ItemsIn(result_queue) + Len(results) + Len(emittedIds)

\* C16. Dispatcher backpressure: the work queue never holds more than
\* C_work = workers x K items and the result queue never more than
\* C_result = workers x K; while the work queue is full the assigner can put
\* neither a Job nor a sentinel, and while the result queue is full no
\* worker can put a Result or its sentinel; so the Jobs the assigner has put
\* less those the workers have taken never number more than C_work.
C16_DispatcherBackpressure ==
    /\ Len(job_queue) <= num_workers * QueueMultiplier
    /\ Len(result_queue) <= num_workers * QueueMultiplier
    /\ Len(job_queue) = num_workers * QueueMultiplier =>
          ~ENABLED AssignJobsPut /\ ~ENABLED AssignJobsSentinel
    /\ Len(result_queue) = num_workers * QueueMultiplier =>
          \A w \in Workers : ~ENABLED WorkerPut(w) /\ ~ENABLED WorkerEnd(w)
    /\ i - JobsTaken <= num_workers * QueueMultiplier

\* The consumer is iterating, both queues are full, the assigner is blocked
\* in its put with one more element pulled and every worker is blocked in
\* its put with a Job transformed.
C16_Witness ==
    /\ cpc = "loop"
    /\ Len(job_queue) = Capacity /\ Len(result_queue) = Capacity
    /\ dpc = "put" /\ ~ENABLED AssignJobsPut
    /\ \A w \in Workers : wpc[w] = "work" /\ ~ENABLED WorkerPut(w)
    /\ i - JobsTaken = Capacity

\* In how many places the Job with index id, or its Result, is: in the work
\* queue, held by a worker, in the result queue, in the pending buffer,
\* emitted.
InQueue(q, id) == Cardinality({k \in 1..Len(q) : IsItem(q[k]) /\ q[k][1] = id})
Holders(id) == {w \in Workers : wpc[w] = "work" /\ wjob[w][1] = id}
Occurrences(id) ==
    InQueue(job_queue, id) + Cardinality(Holders(id)) + InQueue(result_queue, id)
        + InQueue(results, id) + Count(emittedIds, id)

\* C17. Unique indexing and single consumption: the assigner gives the
\* indices 0, 1, 2, ... to the source's elements in source order, so the Job
\* with index id carries the source's element id; of every index given so
\* far there is exactly one Job or Result, in one place, and of no other
\* index any: no two workers hold the same Job, and the Result of a Job
\* carries its index and the transform of its payload.
C17_UniqueIndexing ==
    /\ i <= Len(source)
    /\ dpc = "put" => sample = source[i + 1]
    /\ \A id \in 0..Len(source) : Occurrences(id) = IF id < i THEN 1 ELSE 0
    /\ \A w, v \in Workers :
          w # v /\ wpc[w] = "work" /\ wpc[v] = "work" => wjob[w][1] # wjob[v][1]
    /\ \A k \in 1..Len(job_queue) :
          IsItem(job_queue[k]) =>
              /\ job_queue[k][1] \in 0..(i - 1)
              /\ job_queue[k] = <<job_queue[k][1], source[job_queue[k][1] + 1]>>
    /\ \A w \in Workers :
          wpc[w] = "work" =>
              /\ wjob[w][1] \in 0..(i - 1)
              /\ wjob[w] = <<wjob[w][1], source[wjob[w][1] + 1]>>
    /\ \A k \in 1..Len(result_queue) :
          IsItem(result_queue[k]) =>
              /\ JobId(result_queue[k]) \in 0..(i - 1)
              /\ Data(result_queue[k]) = map_fn(source[JobId(result_queue[k]) + 1])
    /\ \A k \in 1..Len(results) :
          /\ JobId(results[k]) \in 0..(i - 1)
          /\ Data(results[k]) = map_fn(source[JobId(results[k]) + 1])
    /\ \A k \in 1..Len(emittedIds) : emittedIds[k] \in 0..(i - 1)

\* Every element of a longest source has its index: the workers, competing
\* on the work queue, each hold a different Job, another Job waits in the
\* queue, and a Result has reached the consumer ahead of a lower-indexed
\* one.
C17_Witness ==
    /\ num_workers = MaxWorkers
    /\ i = MaxLen
    /\ \A w \in Workers : wpc[w] = "work"
    /\ ItemsIn(job_queue) >= 1
    /\ reordered

\* The pending buffer can supply the next Result: its least job id is
\* next_job_id.
MinId(h) == CHOOSE m \in IdsIn(h) : \A n \in IdsIn(h) : m <= n
CanSupply == results # <<>> /\ MinId(results) = next_job_id

\* C18. Drain-before-take: the consumer takes from the result queue only
\* when the pending buffer is empty or its least job id is not
\* next_job_id; when the least job id is next_job_id the loop is still
\* running and the consumer's step is the emission of that Result, which
\* leaves the result queue as it is; so a consumer in its loop that cannot
\* step is waiting on the empty result queue with a pending buffer that
\* cannot supply next_job_id.
C18_DrainBeforeTake ==
    /\ [](cpc = "loop" =>
            /\ CanSupply <=> HeadReady
            /\ CanSupply =>
                  LoopCondition /\ ENABLED ConsumerEmit /\ ~ENABLED ConsumerTake
            /\ ~ENABLED Consumer =>
                  LoopCondition /\ ~CanSupply /\ result_queue = <<>>)
    /\ [][/\ Len(result_queue') < Len(result_queue) =>
                /\ cpc = "loop"
                /\ ~CanSupply
                /\ result_queue' = Tail(result_queue)
          /\ cpc = "loop" /\ CanSupply /\ consVars' # consVars =>
                /\ emittedIds' = Append(emittedIds, next_job_id)
                /\ IdsIn(results') = IdsIn(results) \ {next_job_id}
                /\ result_queue' = result_queue]_vars

\* The pending buffer holds the next Result and another, and the result
\* queue is not empty: the consumer emits and leaves the queue alone.
C18_Witness ==
    /\ cpc = "loop"
    /\ CanSupply
    /\ Len(results) >= 2
    /\ result_queue # <<>>
    /\ ENABLED ConsumerEmit
    /\ ~ENABLED ConsumerTake

(***************************************************************************)
(* RepeatedDataset over the map stage: the generator __iter__, whose       *)
(* for loop iterates the MappedDataset anew on every pass.                 *)
(***************************************************************************)
RepeatInit ==
    /\ num_workers \in 1..MaxWorkers
    /\ source \in {Source(n) : n \in 0..MaxLen}
    /\ srcFailAt = NoFail
    /\ failOn = NoFail
    /\ Constructed
    /\ count \in {NoCount} \cup (1..MaxCount)
    /\ c = 0
    /\ NoBatchStage /\ NoBucketStage /\ NoShuffleStage

\* while self.count is None or c < self.count, after c += 1
AnotherPass == count = NoCount \/ c + 1 < count

\* A stage whose processes are started anew for every iteration.
RepeatNextPassRestarted ==
    /\ cpc = "done"
    /\ AnotherPass
    /\ c' = c + 1
    /\ cpc' = "loop"
    /\ next_job_id' = 0
    /\ end_count' = 0
    /\ dpc' = "next" /\ i' = 0 /\ sent' = 0
    /\ wpc' = [w \in Workers |-> "get"]
    /\ UNCHANGED <<results, emitted, emittedIds, reordered, sample, wjob, count,
                   inputVars, job_queue, result_queue,
                   batchVars, bucketVars, shuffleVars>>

\* The pass over the source has ended: c += 1, and for sample in
\* self.source iterates the MappedDataset again, which starts a new
\* generator: next_job_id = 0; end_count = 0.  Nothing else of the
\* MappedDataset is touched: its processes were started by __init__.
RepeatNextPass ==
    /\ cpc = "done"
    /\ AnotherPass
    /\ c' = c + 1
    /\ cpc' = "loop"
    /\ next_job_id' = 0
    /\ end_count' = 0
    /\ UNCHANGED <<results, emitted, emittedIds, reordered, count,
                   inputVars, job_queue, result_queue, dispVars, workVars,
                   batchVars, bucketVars, shuffleVars>>

\* The last pass has ended: c += 1, the while condition fails and the
\* generator returns.
RepeatEnd ==
    /\ cpc = "done"
    /\ c < count
    /\ ~AnotherPass
    /\ c' = c + 1
    /\ UNCHANGED <<mapVars, count, batchVars, bucketVars, shuffleVars>>

RepeatNext ==
    \/ Next
    \/ RepeatNextPass
    \/ RepeatEnd

RepeatSpec == RepeatInit /\ [][RepeatNext]_vars

\* A second iteration of the MappedDataset has been started.
SecondIteration == c >= 1 /\ c # count

\* C19. Re-iteration hangs: once a MappedDataset has been iterated to its
\* end, the assigner and the workers have exited and the queues are empty;
\* a second iteration of it starts no process, its consumer waits on the
\* empty result queue with end_count = 0, emits nothing and cannot end.  So
\* a RepeatedDataset over it with count >= 2 or count None yields one pass
\* of the source, [transform(e) for e in input], and then blocks for good,
\* while one with count 1 ends after that pass.
C19_ReiterationHangs ==
    /\ c <= 1
    /\ Len(emitted) <= Len(source)
    /\ emitted = SubSeq(Mapped(source), 1, Len(emitted))
    /\ SecondIteration =>
          /\ count = NoCount \/ count >= 2
          /\ emitted = Mapped(source)
          /\ AllExited
          /\ job_queue = <<>> /\ result_queue = <<>> /\ results = <<>>
          /\ cpc = "loop" /\ LoopCondition /\ ~HeadReady
          /\ end_count = 0 /\ next_job_id = 0
          /\ ~ENABLED RepeatNext
    /\ ~ENABLED RepeatNext =>
          IF count = 1 THEN cpc = "done" /\ c = 1 /\ emitted = Mapped(source)
          ELSE SecondIteration

\* A RepeatedDataset with count None over a longest source has yielded
\* its first pass and is blocked in the second.
C19_Witness ==
    /\ count = NoCount
    /\ SecondIteration
    /\ num_workers = MaxWorkers
    /\ Len(source) = MaxLen
    /\ emitted = Mapped(source)
    /\ cpc = "loop"
    /\ ~ENABLED RepeatNext

\* C20. Pending buffer invariant: the job ids of the Results in the pending
\* buffer are pairwise distinct and none is below next_job_id; every index
\* below next_job_id has been emitted; and the pending buffer and
\* next_job_id change in steps of the consumer only, a step of the assigner
\* or of a worker leaves both as they are.
C20_PendingBuffer ==
    /\ [](/\ Cardinality(IdsIn(results)) = Len(results)
          /\ \A k \in 1..Len(results) : JobId(results[k]) >= next_job_id
          /\ \A id \in 0..(next_job_id - 1) : id \in Elements(emittedIds))
    /\ [][/\ results' # results \/ next_job_id' # next_job_id =>
                /\ cpc \in {"loop", "yield"}
                /\ UNCHANGED <<job_queue, dispVars, workVars>>
          /\ dispVars' # dispVars \/ workVars' # workVars =>
                UNCHANGED <<results, next_job_id>>]_vars

\* The consumer has emitted a Result and holds two later ones in the
\* pending buffer, neither of them the next.
C20_Witness ==
    /\ cpc = "loop"
    /\ next_job_id >= 1
    /\ Len(results) >= 2
    /\ ~HeadReady
    /\ \A k \in 1..Len(results) : JobId(results[k]) > next_job_id

=============================================================================
